---- MODULE Spec2Model ----
(***************************************************************************)
(* Model of app/vectorizer.py: the two embedding adapters                  *)
(* (OpenAIVectorizer.embed_texts, BGEVectorizer.embed_texts), the factory  *)
(* get_vectorizer and the pipeline vectorize_jsonl_file.                   *)
(*                                                                         *)
(* Python values are records [k, s, d]: k is the kind ("none", "int",      *)
(* "str", "list", "missing"), s the characters of a string (or, for a      *)
(* list, the characters of the text the vector was computed from) and d    *)
(* the length of a list.  "missing" stands for a key that is not in a      *)
(* dict; it is never a value that dict.get returns.                        *)
(* Positions are 1-based here, 0-based in the source.                      *)
(***************************************************************************)
EXTENDS Integers, Sequences, FiniteSets, TLC

VARIABLES pc, error, expected_dim, vectorizer, file_lines, original_records,
          texts_to_embed, embeddings, updated_records, successful_embeddings,
          failed_embeddings, outfile, fileRead, embedCalled,
          apc, texts, i, all_embeddings, calls, waited

pvars == <<pc, error, expected_dim, vectorizer, file_lines, original_records,
           texts_to_embed, embeddings, updated_records, successful_embeddings,
           failed_embeddings, outfile, fileRead, embedCalled>>
avars == <<apc, texts, i, all_embeddings, calls, waited>>
vars == <<pvars, avars>>

----------------------------------------------------------------------------
(* Bounds *)

\* most lines in an input file
MaxLines == 3
\* most entries in a list handed directly to embed_texts
MaxTexts == 3
\* batch_size (default 100 for OpenAI, 32 for BGE), scaled so that the
\* bounded lists span more than one batch
BatchSize == 2

----------------------------------------------------------------------------
(* Program constants *)

DEFAULT_DIMENSION == 1536
BGE_DIMENSION == 1024
BACKOFF == 10

----------------------------------------------------------------------------
(* Python values *)

None == [k |-> "none", s |-> <<>>, d |-> 0]
IntVal == [k |-> "int", s |-> <<>>, d |-> 0]
Str(chars) == [k |-> "str", s |-> chars, d |-> 0]
Missing == [k |-> "missing", s |-> <<>>, d |-> 0]
\* a list of d floats; s remembers what it was computed from
Vec(src, d) == [k |-> "list", s |-> src, d |-> d]

Whitespace == {" "}

RECURSIVE LStrip(_)
LStrip(s) == IF s # <<>> /\ Head(s) \in Whitespace THEN LStrip(Tail(s)) ELSE s

RECURSIVE RStrip(_)
RStrip(s) ==
    IF s # <<>> /\ s[Len(s)] \in Whitespace
    THEN RStrip(SubSeq(s, 1, Len(s) - 1))
    ELSE s

\* str.strip()
Strip(s) == RStrip(LStrip(s))

\* isinstance(text, str) and text.strip(), without the strip
IsValidTextNoStrip(v) == v.k = "str"

\* isinstance(text, str) and text.strip()
IsValidText(v) == v.k = "str" /\ Strip(v.s) # <<>>

\* dict.get(key): None when the key is not in the dict
Get(v) == IF v.k = "missing" THEN None ELSE v

\* [None] * n
Nones(n) == [j \in 1..n |-> None]

\* the inputs of the model
AdapterTexts == {None, IntVal, Str(<<" ">>), Str(<<"a">>), Str(<<" ", "b">>)}
\* the vector a record of the input file may already hold
OrigVec == Vec(<<"o">>, DEFAULT_DIMENSION)
\* lengths of the vectors a backend may return
BackendDims == {BGE_DIMENSION, DEFAULT_DIMENSION}
\* 'dim' of the vector field in the schema; 0 stands for None or 0 (falsy)
SchemaDims == {0, 768, BGE_DIMENSION, DEFAULT_DIMENSION}

SeqsUpTo(S, n) == UNION {[1..m -> S] : m \in 0..n}

Min(a, b) == IF a < b THEN a ELSE b

----------------------------------------------------------------------------
(* The adapters *)

\* original_indices = list(range(i, i + len(batch_texts)))
OriginalIndices(ts, start, bs) ==
    [j \in 1..(Min(start + bs, Len(ts)) - start) |-> start + j]

\* the filter without the strip test
BatchIndicesNoStrip(ts, original_indices) ==
    SelectSeq(original_indices, LAMBDA idx : IsValidTextNoStrip(ts[idx]))

\* batch_indices: the positions of the valid texts of the batch
BatchIndices(ts, original_indices) ==
    SelectSeq(original_indices, LAMBDA idx : IsValidText(ts[idx]))

\* valid_batch_texts
ValidBatchTexts(ts, batch_indices) ==
    [j \in 1..Len(batch_indices) |-> ts[batch_indices[j]]]

\* One item of a backend response.  shape is "list" (an embedding that is a
\* list), "noattr" (OpenAI: the item has no .embedding), "nonlist" (BGE: a
\* dict whose 'embedding' is not a list) or "nondict" (BGE: not a dict).
Item(shape, text, d) ==
    [shape |-> shape,
     embedding |-> IF shape = "list" THEN Vec(text.s, d) ELSE None]

OpenAIShapes == {"list", "noattr"}
BGEShapes == {"list", "nonlist", "nondict"}

\* the responses a backend can give to a request of sent texts: one item per
\* text (every embedding of a response has the same length d), one item too
\* few, or one item too many
ResponsesFor(shapes, sent) ==
    LET n == Len(sent)
        full == {[j \in 1..n |-> Item(sh[j], sent[j], d)] :
                    sh \in [1..n -> shapes], d \in BackendDims}
        short == [j \in 1..(n - 1) |-> Item("list", sent[j], DEFAULT_DIMENSION)]
        long == [j \in 1..(n + 1) |->
                    Item("list", sent[IF j > n THEN n ELSE j], DEFAULT_DIMENSION)]
    IN  full \cup {short, long}

\* lines 104-106 and 121-123: assign the items in order; reading .embedding
\* of an item that has none raises inside the try
RECURSIVE AssignOpenAI(_, _, _, _)
AssignOpenAI(all, batch_indices, data, j) ==
    IF j > Len(data) THEN [emb |-> all, result |-> "ok"]
    ELSE IF data[j].shape = "noattr" THEN [emb |-> all, result |-> "bad_item"]
    ELSE AssignOpenAI([all EXCEPT ![batch_indices[j]] = data[j].embedding],
                      batch_indices, data, j + 1)

\* lines 99-106 and 117-123: the count test, then the assignment
ProcessOpenAI(all, batch_indices, data) ==
    IF Len(data) # Len(batch_indices)
    THEN [emb |-> all, result |-> "mismatch"]
    ELSE AssignOpenAI(all, batch_indices, data, 1)

\* lines 190-196: item.get('embedding') raises on an item that is not a dict;
\* an embedding that is not a list is skipped
RECURSIVE AssignBGE(_, _, _, _)
AssignBGE(all, batch_indices, data, j) ==
    IF j > Len(data) THEN [emb |-> all, result |-> "ok"]
    ELSE IF data[j].shape = "nondict" THEN [emb |-> all, result |-> "bad_item"]
    ELSE IF data[j].shape = "list"
    THEN AssignBGE([all EXCEPT ![batch_indices[j]] = data[j].embedding],
                   batch_indices, data, j + 1)
    ELSE AssignBGE(all, batch_indices, data, j + 1)

\* lines 185-196
ProcessBGE(all, batch_indices, data) ==
    IF Len(data) # Len(batch_indices)
    THEN [emb |-> all, result |-> "mismatch"]
    ELSE AssignBGE(all, batch_indices, data, 1)

\* one request as the backend saw it, and how the adapter fared with it
Call(start, attempt, batch_indices, sent, result) ==
    [start |-> start, attempt |-> attempt, idx |-> batch_indices,
     texts |-> sent, result |-> result]

\* lines 86-88 and 172-174: a batch without valid texts is skipped
BatchSkip ==
    /\ apc = "loop"
    /\ i < Len(texts)
    /\ BatchIndices(texts, OriginalIndices(texts, i, BatchSize)) = <<>>
    /\ i' = i + BatchSize
    /\ UNCHANGED <<apc, texts, all_embeddings, calls, waited, pvars>>

\* lines 93-111 and 128-130: the first request of a batch
OpenAICall ==
    /\ apc = "loop"
    /\ vectorizer = "openai"
    /\ i < Len(texts)
    /\ LET bidx == BatchIndices(texts, OriginalIndices(texts, i, BatchSize))
           sent == ValidBatchTexts(texts, bidx)
       IN  /\ bidx # <<>>
           /\ \/ \* openai.RateLimitError
                 /\ apc' = "retry"
                 /\ waited' = waited + BACKOFF
                 /\ calls' = Append(calls, Call(i, 1, bidx, sent, "ratelimit"))
                 /\ UNCHANGED <<i, all_embeddings>>
              \/ \* any other exception from the request
                 /\ calls' = Append(calls, Call(i, 1, bidx, sent, "error"))
                 /\ i' = i + BatchSize
                 /\ UNCHANGED <<apc, all_embeddings, waited>>
              \/ \E data \in ResponsesFor(OpenAIShapes, sent) :
                    LET r == ProcessOpenAI(all_embeddings, bidx, data)
                    IN  /\ all_embeddings' = r.emb
                        /\ calls' = Append(calls, Call(i, 1, bidx, sent, r.result))
                        /\ i' = i + BatchSize
                        /\ UNCHANGED <<apc, waited>>
    /\ UNCHANGED <<texts, pvars>>

\* lines 113-126: the retry after the backoff
OpenAIRetry ==
    /\ apc = "retry"
    /\ LET bidx == BatchIndices(texts, OriginalIndices(texts, i, BatchSize))
           sent == ValidBatchTexts(texts, bidx)
       IN  \/ \E e \in {"ratelimit", "error"} :
                 /\ calls' = Append(calls, Call(i, 2, bidx, sent, e))
                 /\ UNCHANGED all_embeddings
           \/ \E data \in ResponsesFor(OpenAIShapes, sent) :
                 LET r == ProcessOpenAI(all_embeddings, bidx, data)
                 IN  /\ all_embeddings' = r.emb
                     /\ calls' = Append(calls, Call(i, 2, bidx, sent, r.result))
    /\ apc' = "loop"
    /\ i' = i + BatchSize
    /\ UNCHANGED <<texts, waited, pvars>>

\* lines 180-201: the request of a batch; only RequestException and
\* json.JSONDecodeError are caught
BGECall ==
    /\ apc = "loop"
    /\ vectorizer = "bge"
    /\ i < Len(texts)
    /\ LET bidx == BatchIndices(texts, OriginalIndices(texts, i, BatchSize))
           sent == ValidBatchTexts(texts, bidx)
       IN  /\ bidx # <<>>
           /\ \/ \E e \in {"transport", "decode"} :
                    /\ calls' = Append(calls, Call(i, 1, bidx, sent, e))
                    /\ i' = i + BatchSize
                    /\ UNCHANGED <<apc, all_embeddings>>
              \/ \* response.json() is not a dict: .get raises AttributeError
                 /\ calls' = Append(calls, Call(i, 1, bidx, sent, "bad_body"))
                 /\ apc' = "raised"
                 /\ UNCHANGED <<i, all_embeddings>>
              \/ \E data \in ResponsesFor(BGEShapes, sent) :
                    LET r == ProcessBGE(all_embeddings, bidx, data)
                    IN  /\ all_embeddings' = r.emb
                        /\ calls' = Append(calls, Call(i, 1, bidx, sent, r.result))
                        /\ IF r.result = "bad_item"
                           THEN apc' = "raised" /\ UNCHANGED i
                           ELSE i' = i + BatchSize /\ UNCHANGED apc
    /\ UNCHANGED <<texts, waited, pvars>>

\* lines 132-134 and 203-205: return all_embeddings
Return ==
    /\ apc = "loop"
    /\ i >= Len(texts)
    /\ apc' = "returned"
    /\ UNCHANGED <<texts, i, all_embeddings, calls, waited, pvars>>

AdapterNext == BatchSkip \/ OpenAICall \/ OpenAIRetry \/ BGECall \/ Return

\* embed_texts called directly on any list
AdapterInit ==
    /\ pc = "direct"
    /\ error = "none"
    /\ expected_dim = 0
    /\ vectorizer \in {"openai", "bge"}
    /\ file_lines = <<>>
    /\ original_records = <<>>
    /\ texts_to_embed = <<>>
    /\ embeddings = <<>>
    /\ updated_records = <<>>
    /\ successful_embeddings = 0
    /\ failed_embeddings = 0
    /\ outfile = [state |-> "untouched", recs |-> <<>>]
    /\ fileRead = FALSE
    /\ embedCalled = TRUE
    /\ apc = "loop"
    /\ texts \in SeqsUpTo(AdapterTexts, MaxTexts)
    /\ i = 0
    /\ all_embeddings = Nones(Len(texts))
    /\ calls = <<>>
    /\ waited = 0

SpecAdapter == AdapterInit /\ [][AdapterNext]_vars

----------------------------------------------------------------------------
(* The factory and the pipeline *)

\* str.lower() on the type tags the model uses
Lower(tag) == IF tag = "OpenAI" THEN "openai" ELSE IF tag = "BGE" THEN "bge" ELSE tag

ModelTypes == {"openai", "OpenAI", "bge", "BGE", "word2vec"}

\* vectorizer.dimension
Dimension(v) == IF v = "openai" THEN DEFAULT_DIMENSION ELSE BGE_DIMENSION

\* get_vectorizer: the adapter built for a type tag, or the error raised.
\* key is settings.openai_api_key, url is settings.bge_base_url, req says
\* whether the requests library was imported.
GetVectorizer(model_type, key, url, req) ==
    IF Lower(model_type) = "openai"
    THEN IF key THEN "openai" ELSE "ValueError"
    ELSE IF Lower(model_type) = "bge"
    THEN IF ~url THEN "ValueError"
         ELSE IF ~req THEN "ImportError"
         ELSE "bge"
    ELSE "ValueError"

\* the dimension test that is never taken
DimensionMismatchNever(dim, v) == FALSE

\* line 290: expected_dim and vectorizer.dimension != expected_dim
DimensionMismatch(dim, v) == dim # 0 /\ Dimension(v) # dim

\* a line of the input file: blank, not JSON, or a record
Line(kind, text, vec) == [kind |-> kind, text |-> text, vec |-> vec]
FileLines ==
    {Line("blank", None, None), Line("bad", None, None),
     Line("rec", None, Missing), Line("rec", None, OrigVec),
     Line("rec", Str(<<" ">>), None),
     Line("rec", Str(<<"a">>), Missing), Line("rec", Str(<<"a">>), OrigVec)}

\* lines 311-315: the text slot of a record
TextSlot(record) ==
    IF IsValidText(Get(record.text)) THEN Get(record.text) ELSE None

\* lines 305-315: the records read up to the first line that is not JSON;
\* bad is the number of that line, 0 when there is none
RECURSIVE ReadLines(_, _, _)
ReadLines(lines, line_num, recs) ==
    IF line_num > Len(lines) THEN [records |-> recs, bad |-> 0]
    ELSE IF lines[line_num].kind = "blank" THEN ReadLines(lines, line_num + 1, recs)
    ELSE IF lines[line_num].kind = "bad" THEN [records |-> recs, bad |-> line_num]
    ELSE ReadLines(lines, line_num + 1, Append(recs, lines[line_num]))

\* any() that is always true
AnyTextAlways(ts) == TRUE

\* line 326: any(texts_to_embed)
AnyText(ts) == \E j \in 1..Len(ts) : ts[j].k = "str" /\ ts[j].s # <<>>

\* an output record; ok and fail are what it adds to the two counters
Merged(record, vec, ok, fail) ==
    [rec |-> [record EXCEPT !.vec = vec], ok |-> ok, fail |-> fail]

\* the merge that counts every record without an embedding as a failure
MergeRecordCountAll(record, generated_embedding, text, dim) ==
    IF generated_embedding # None
    THEN IF dim # 0 /\ generated_embedding.d # dim
         THEN Merged(record, Get(record.vec), 0, 1)
         ELSE Merged(record, generated_embedding, 1, 0)
    ELSE Merged(record, Get(record.vec), 0, 1)

\* the merge that sets the vector field to None when there is no embedding
MergeRecordNulled(record, generated_embedding, text, dim) ==
    IF generated_embedding # None
    THEN IF dim # 0 /\ generated_embedding.d # dim
         THEN Merged(record, Get(record.vec), 0, 1)
         ELSE Merged(record, generated_embedding, 1, 0)
    ELSE Merged(record, None, 0, IF text # None THEN 1 ELSE 0)

\* lines 351-366: the output record of one input record
MergeRecord(record, generated_embedding, text, dim) ==
    IF generated_embedding # None
    THEN IF dim # 0 /\ generated_embedding.d # dim
         THEN Merged(record, Get(record.vec), 0, 1)
         ELSE Merged(record, generated_embedding, 1, 0)
    ELSE Merged(record, Get(record.vec), 0, IF text # None THEN 1 ELSE 0)

\* the loop that leaves out the records without a text
RECURSIVE MergeLoopDropping(_, _, _, _, _, _)
MergeLoopDropping(records, embs, ts, dim, n, acc) ==
    IF n > Len(records) THEN acc
    ELSE LET m == MergeRecord(records[n], embs[n], ts[n], dim)
         IN  MergeLoopDropping(records, embs, ts, dim, n + 1,
                 [updated |-> IF ts[n] = None THEN acc.updated
                              ELSE Append(acc.updated, m.rec),
                  successful |-> acc.successful + m.ok,
                  failed |-> acc.failed + m.fail])

\* lines 345-368: the merge loop
RECURSIVE MergeLoop(_, _, _, _, _, _)
MergeLoop(records, embs, ts, dim, n, acc) ==
    IF n > Len(records) THEN acc
    ELSE LET m == MergeRecord(records[n], embs[n], ts[n], dim)
         IN  MergeLoop(records, embs, ts, dim, n + 1,
                 [updated |-> Append(acc.updated, m.rec),
                  successful |-> acc.successful + m.ok,
                  failed |-> acc.failed + m.fail])

Untouched == [state |-> "untouched", recs |-> <<>>]

\* the output file, opened for writing as soon as the records are read
OutfileAfterEarly(phase, out) ==
    IF phase \in {"embed", "write"} THEN [state |-> "opened", recs |-> <<>>] ELSE out

\* the output file after the code of a phase has run up to its first write
\* to it: only the write phase opens output_path (line 380)
OutfileAfter(phase, out) ==
    IF phase = "write" THEN [state |-> "opened", recs |-> <<>>] ELSE out

Fail(kind) == pc' = "failed" /\ error' = kind

\* lines 255-260
CheckFile ==
    /\ pc = "start"
    /\ \E path \in {"missing", "dir", "file"} :
          IF path = "missing" THEN Fail("file_not_found")
          ELSE IF path = "dir" THEN Fail("not_a_file")
          ELSE pc' = "schema" /\ UNCHANGED error
    /\ outfile' = OutfileAfter("file", outfile)
    /\ UNCHANGED <<expected_dim, vectorizer, file_lines, original_records,
                   texts_to_embed, embeddings, updated_records,
                   successful_embeddings, failed_embeddings, fileRead,
                   embedCalled, avars>>

\* lines 263-279; dim is schema_fields[vector_field_name].get('dim'), read
\* at line 287
ValidateSchema ==
    /\ pc = "schema"
    /\ \E text_in, vec_in, vec_is_vector, text_is_vector \in BOOLEAN,
          dim \in SchemaDims :
          IF ~text_in THEN Fail("text_field") /\ UNCHANGED expected_dim
          ELSE IF ~vec_in THEN Fail("vector_field") /\ UNCHANGED expected_dim
          ELSE IF ~vec_is_vector THEN Fail("not_vector") /\ UNCHANGED expected_dim
          ELSE IF text_is_vector THEN Fail("text_is_vector") /\ UNCHANGED expected_dim
          ELSE pc' = "provider" /\ expected_dim' = dim /\ UNCHANGED error
    /\ outfile' = OutfileAfter("schema", outfile)
    /\ UNCHANGED <<vectorizer, file_lines, original_records, texts_to_embed,
                   embeddings, updated_records, successful_embeddings,
                   failed_embeddings, fileRead, embedCalled, avars>>

\* lines 281-285
MakeVectorizer ==
    /\ pc = "provider"
    /\ \E model_type \in ModelTypes, key, url, req \in BOOLEAN :
          LET v == GetVectorizer(model_type, key, url, req)
          IN  IF v \in {"ValueError", "ImportError"}
              THEN Fail("provider") /\ UNCHANGED vectorizer
              ELSE pc' = "dimcheck" /\ vectorizer' = v /\ UNCHANGED error
    /\ outfile' = OutfileAfter("provider", outfile)
    /\ UNCHANGED <<expected_dim, file_lines, original_records, texts_to_embed,
                   embeddings, updated_records, successful_embeddings,
                   failed_embeddings, fileRead, embedCalled, avars>>

\* lines 287-295
CheckDimension ==
    /\ pc = "dimcheck"
    /\ IF DimensionMismatch(expected_dim, vectorizer)
       THEN Fail("dimension")
       ELSE pc' = "read" /\ UNCHANGED error
    /\ outfile' = OutfileAfter("dimcheck", outfile)
    /\ UNCHANGED <<expected_dim, vectorizer, file_lines, original_records,
                   texts_to_embed, embeddings, updated_records,
                   successful_embeddings, failed_embeddings, fileRead,
                   embedCalled, avars>>

\* lines 297-324
ReadFile ==
    /\ pc = "read"
    /\ fileRead' = TRUE
    /\ \E lines \in SeqsUpTo(FileLines, MaxLines), io_error \in BOOLEAN :
          LET r == ReadLines(lines, 1, <<>>)
          IN  /\ file_lines' = lines
              /\ original_records' = r.records
              /\ texts_to_embed' = [j \in 1..Len(r.records) |-> TextSlot(r.records[j])]
              /\ IF r.bad # 0 THEN Fail("invalid_json")
                 ELSE IF io_error THEN Fail("read")
                 ELSE pc' = "embed" /\ UNCHANGED error
    /\ outfile' = OutfileAfter("read", outfile)
    /\ UNCHANGED <<expected_dim, vectorizer, embeddings, updated_records,
                   successful_embeddings, failed_embeddings, embedCalled, avars>>

\* lines 326-328: no text at all, the provider is not called
SkipEmbed ==
    /\ pc = "embed"
    /\ ~AnyText(texts_to_embed)
    /\ embeddings' = Nones(Len(original_records))
    /\ pc' = "merge"
    /\ outfile' = OutfileAfter("embed", outfile)
    /\ UNCHANGED <<error, expected_dim, vectorizer, file_lines, original_records,
                   texts_to_embed, updated_records, successful_embeddings,
                   failed_embeddings, fileRead, embedCalled, avars>>

\* lines 329-333: vectorizer.embed_texts(texts_to_embed) is entered
CallEmbed ==
    /\ pc = "embed"
    /\ AnyText(texts_to_embed)
    /\ pc' = "embedding"
    /\ embedCalled' = TRUE
    /\ apc' = "loop"
    /\ texts' = texts_to_embed
    /\ i' = 0
    /\ all_embeddings' = Nones(Len(texts_to_embed))
    /\ outfile' = OutfileAfter("embed", outfile)
    /\ UNCHANGED <<error, expected_dim, vectorizer, file_lines, original_records,
                   texts_to_embed, embeddings, updated_records,
                   successful_embeddings, failed_embeddings, fileRead,
                   calls, waited>>

\* lines 333-342: embed_texts has returned or raised
AfterEmbed ==
    /\ pc = "embedding"
    /\ apc \in {"returned", "raised"}
    /\ IF apc = "raised" THEN Fail("embedding") /\ UNCHANGED embeddings
       ELSE IF Len(all_embeddings) # Len(original_records)
       THEN Fail("count_mismatch") /\ UNCHANGED embeddings
       ELSE pc' = "merge" /\ embeddings' = all_embeddings /\ UNCHANGED error
    /\ apc' = "idle"
    /\ outfile' = OutfileAfter("embedding", outfile)
    /\ UNCHANGED <<expected_dim, vectorizer, file_lines, original_records,
                   texts_to_embed, updated_records, successful_embeddings,
                   failed_embeddings, fileRead, embedCalled,
                   texts, i, all_embeddings, calls, waited>>

\* lines 344-370
Merge ==
    /\ pc = "merge"
    /\ LET r == MergeLoop(original_records, embeddings, texts_to_embed,
                          expected_dim, 1,
                          [updated |-> <<>>, successful |-> 0, failed |-> 0])
       IN  /\ updated_records' = r.updated
           /\ successful_embeddings' = r.successful
           /\ failed_embeddings' = r.failed
    /\ pc' = "write"
    /\ outfile' = OutfileAfter("merge", outfile)
    /\ UNCHANGED <<error, expected_dim, vectorizer, file_lines, original_records,
                   texts_to_embed, embeddings, fileRead, embedCalled, avars>>

\* lines 372-388: open(output_path, 'w') may fail before the file is
\* touched, a write may fail after the file was opened (a part of the records
\* is in it), or all records are written
Write ==
    /\ pc = "write"
    /\ \/ Fail("write") /\ UNCHANGED outfile
       \/ /\ outfile' = OutfileAfter("write", outfile)
          /\ Fail("write")
       \/ /\ outfile' = [state |-> "written", recs |-> updated_records]
          /\ pc' = "done"
          /\ UNCHANGED error
    /\ UNCHANGED <<expected_dim, vectorizer, file_lines, original_records,
                   texts_to_embed, embeddings, updated_records,
                   successful_embeddings, failed_embeddings, fileRead,
                   embedCalled, avars>>

Init ==
    /\ pc = "start"
    /\ error = "none"
    /\ expected_dim = 0
    /\ vectorizer = "none"
    /\ file_lines = <<>>
    /\ original_records = <<>>
    /\ texts_to_embed = <<>>
    /\ embeddings = <<>>
    /\ updated_records = <<>>
    /\ successful_embeddings = 0
    /\ failed_embeddings = 0
    /\ outfile = Untouched
    /\ fileRead = FALSE
    /\ embedCalled = FALSE
    /\ apc = "idle"
    /\ texts = <<>>
    /\ i = 0
    /\ all_embeddings = <<>>
    /\ calls = <<>>
    /\ waited = 0

Next ==
    \/ CheckFile \/ ValidateSchema \/ MakeVectorizer \/ CheckDimension
    \/ ReadFile \/ SkipEmbed \/ CallEmbed \/ AfterEmbed \/ Merge \/ Write
    \/ BatchSkip \/ OpenAICall \/ OpenAIRetry \/ BGECall \/ Return

Spec == Init /\ [][Next]_vars

----------------------------------------------------------------------------
(* Properties *)

Range(f) == {f[j] : j \in DOMAIN f}

\* the lines of the input file that are not blank
NonBlank(lines) == SelectSeq(lines, LAMBDA l : l.kind # "blank")

\* the text field of a record is absent or blank
TextAbsent(record) == ~(record.text.k = "str" /\ Strip(record.text.s) # <<>>)

\* the pipeline has gone through the merge phase
AfterMerge == pc \in {"write", "done"} \/ (pc = "failed" /\ error = "write")

\* C1: a run that completes writes one output record per non-blank input
\* line, the j-th output record is the j-th input record with at most its
\* vector field replaced (by its own value or by an embedding of its own
\* text), and the lists of records, text slots, embedding results and output
\* records have the same length at every stage.
C1_LengthsAndOrder ==
    /\ Len(texts_to_embed) = Len(original_records)
    /\ pc = "embedding" => Len(all_embeddings) = Len(original_records)
    /\ pc \in {"merge", "write", "done"} => Len(embeddings) = Len(original_records)
    /\ pc \in {"write", "done"} => Len(updated_records) = Len(original_records)
    /\ pc = "done" =>
          LET in == NonBlank(file_lines)
              out == outfile.recs
          IN  /\ outfile.state = "written"
              /\ Len(out) = Len(in)
              /\ \A j \in 1..Len(out) :
                    /\ out[j].kind = in[j].kind
                    /\ out[j].text = in[j].text
                    /\ \/ out[j].vec = Get(in[j].vec)
                       \/ out[j].vec.k = "list" /\ out[j].vec.s = in[j].text.s

C1_Witness ==
    /\ pc = "done"
    /\ Len(outfile.recs) = 2
    /\ Len(file_lines) > Len(outfile.recs)
    /\ file_lines[2].kind = "blank"
    /\ outfile.recs[1].text # outfile.recs[2].text
    /\ \E j \in 1..2 : outfile.recs[j].vec.s = <<"a">>

\* C2: for both adapters, the result is as long as the input, a result that
\* is not None is the embedding the backend returned for the text at the
\* same index, and an entry that is None, not a string or blank is never
\* sent to the backend and has the result None.
C2_PositionalResults ==
    /\ Len(all_embeddings) = Len(texts)
    /\ \A j \in 1..Len(texts) :
          all_embeddings[j] # None =>
              /\ all_embeddings[j].k = "list"
              /\ all_embeddings[j].s = texts[j].s
    /\ \A j \in 1..Len(texts) :
          ~(texts[j].k = "str" /\ Strip(texts[j].s) # <<>>) =>
              /\ all_embeddings[j] = None
              /\ \A c \in Range(calls) : j \notin Range(c.idx)
    /\ \A c \in Range(calls) : \A t \in Range(c.texts) :
          t.k = "str" /\ Strip(t.s) # <<>>

C2_Witness ==
    /\ pc = "direct"
    /\ apc = "returned"
    /\ Len(texts) = 3
    /\ texts[1].k # "str"
    /\ all_embeddings[2] # None
    /\ texts[3] = Str(<<" ">>)

\* C3 as claimed: a record whose text field is absent or blank has its vector
\* field in the output in the same state as in the input, also when the
\* input record has no vector field.
C3_SameStateAsInput ==
    pc = "done" =>
        \A j \in 1..Len(original_records) :
            TextAbsent(original_records[j]) =>
                outfile.recs[j].vec = original_records[j].vec

\* C3: a record whose text field is absent or blank has, in the output, the
\* vector-field value that record.get reads in the input: a value is kept
\* unchanged, and a record that has no vector field gets one that is None.
C3_GetValueKept ==
    pc = "done" =>
        \A j \in 1..Len(original_records) :
            TextAbsent(original_records[j]) =>
                outfile.recs[j].vec =
                    (IF original_records[j].vec = Missing THEN None
                     ELSE original_records[j].vec)

C3_Witness ==
    /\ pc = "done"
    /\ embedCalled
    /\ \E j, k \in 1..Len(original_records) :
          /\ TextAbsent(original_records[j])
          /\ original_records[j].vec = OrigVec
          /\ outfile.recs[j].vec = OrigVec
          /\ TextAbsent(original_records[k])
          /\ original_records[k].vec = Missing
          /\ outfile.recs[k].vec = None

\* the schema declares a dimension that is not the provider's
DeclaredMismatch ==
    /\ vectorizer \in {"openai", "bge"}
    /\ expected_dim # 0
    /\ expected_dim # (IF vectorizer = "openai" THEN DEFAULT_DIMENSION
                       ELSE BGE_DIMENSION)

\* C4: when the schema declares a dimension that differs from the
\* provider's, the run fails at the dimension check: the file is never read,
\* embed_texts and the backend are never called and the output is not
\* written.
C4_FailsBeforeApiWork ==
    DeclaredMismatch =>
        /\ pc \in {"dimcheck", "failed"}
        /\ pc = "failed" => error = "dimension"
        /\ ~fileRead
        /\ ~embedCalled
        /\ calls = <<>>
        /\ outfile = Untouched

C4_Witness ==
    /\ pc = "failed"
    /\ error = "dimension"
    /\ expected_dim = 768
    /\ vectorizer = "openai"

\* the file has been read and no record of it has a text
AllBlankFile ==
    /\ fileRead
    /\ pc # "failed" \/ error \notin {"invalid_json", "read"}
    /\ \A j \in 1..Len(file_lines) :
          file_lines[j].kind = "rec" /\ TextAbsent(file_lines[j])

\* C5: when the text field is blank or absent in every record, embed_texts
\* and the backend are never called, the run goes on to the write phase
\* (only the write itself can still fail), and every output record keeps
\* the vector-field value read from its input record.
C5_NoProviderCallWhenAllBlank ==
    AllBlankFile =>
        /\ ~embedCalled
        /\ calls = <<>>
        /\ pc \in {"embed", "merge", "write", "done", "failed"}
        /\ pc = "failed" => error = "write"
        /\ pc = "done" =>
              /\ outfile.state = "written"
              /\ Len(outfile.recs) = Len(file_lines)
              /\ \A j \in 1..Len(file_lines) :
                    Get(outfile.recs[j].vec) = Get(file_lines[j].vec)

C5_Witness ==
    /\ AllBlankFile
    /\ pc = "done"
    /\ Len(file_lines) = 3
    /\ file_lines[1].text = Str(<<" ">>)
    /\ file_lines[2].text = None
    /\ outfile.recs[2].vec = OrigVec

\* the positions of a request's batch all hold None
BatchIsNone(c) == \A idx \in Range(c.idx) : all_embeddings[idx] = None

\* C6 as claimed: a rate-limit error on a batch is followed by the backoff
\* and exactly one retry of the same batch, no batch is sent more than
\* twice, and when the retry fails, whatever the error, the results of the
\* batch stay None, embed_texts does not raise and goes on with the next
\* batch.
C6_RetryOnceThenNone ==
    vectorizer = "openai" =>
        /\ apc # "raised"
        /\ \A k \in 1..Len(calls) :
              /\ calls[k].attempt = 2 <=>
                    (k > 1 /\ calls[k - 1].attempt = 1
                           /\ calls[k - 1].result = "ratelimit")
              /\ calls[k].attempt = 2 =>
                    /\ calls[k].start = calls[k - 1].start
                    /\ calls[k].texts = calls[k - 1].texts
              /\ Cardinality({m \in 1..Len(calls) :
                                 calls[m].start = calls[k].start}) <= 2
              /\ (calls[k].attempt = 2 /\ calls[k].result # "ok") =>
                    /\ BatchIsNone(calls[k])
                    /\ i > calls[k].start
        /\ waited = BACKOFF * Cardinality({k \in 1..Len(calls) :
                                             calls[k].result = "ratelimit"
                                             /\ calls[k].attempt = 1})

\* C7 as claimed: an error other than a rate limit while a batch is
\* processed leaves the results of that batch None, embed_texts does not
\* raise, and every later batch that has a valid text is still sent.
C7_BatchErrorLeavesNone ==
    vectorizer = "openai" =>
        /\ apc # "raised"
        /\ \A k \in 1..Len(calls) :
              calls[k].result \in {"error", "bad_item"} => BatchIsNone(calls[k])
        /\ apc = "returned" =>
              \A j \in 1..Len(texts) :
                  (texts[j].k = "str" /\ Strip(texts[j].s) # <<>>) =>
                      \E c \in Range(calls) : j \in Range(c.idx)

\* C8 as claimed: in the BGE adapter a transport error, a response that
\* cannot be decoded and a malformed item of a response are not fatal:
\* embed_texts does not raise and the pipeline run does not abort.
C8_BGEErrorsNotFatal ==
    (/\ vectorizer = "bge"
     /\ calls # <<>>
     /\ calls[Len(calls)].result \in {"transport", "decode", "bad_item"}) =>
        /\ apc # "raised"
        /\ ~(pc = "failed" /\ error = "embedding")

\* C9: when the run has ended with a fatal error raised before the write
\* phase, and at every moment before the write phase, the output file has
\* not been created or modified.
C9_NoOutputBeforeWritePhase ==
    (pc # "done" /\ ~(pc = "failed" /\ error = "write")) => outfile = Untouched

C9_Witness ==
    /\ pc = "failed"
    /\ error = "embedding"
    /\ \E j \in 1..Len(all_embeddings) : all_embeddings[j] # None
    /\ outfile = Untouched

\* C10: after the merge, every record index has one of three outcomes: an
\* embedding of acceptable length is written and counted as a success; an
\* embedding whose length differs from the declared dimension is discarded,
\* the value read from the input's vector field is kept and a failure is
\* counted; without an embedding that value is kept and a failure is counted
\* only when the text slot is not None.  So successes + failures is the
\* number of records minus those with neither text slot nor embedding.
C10_MergeOutcomes ==
    AfterMerge =>
        LET n == Len(original_records)
            Accepted == {j \in 1..n : /\ embeddings[j] # None
                                      /\ (expected_dim = 0
                                          \/ embeddings[j].d = expected_dim)}
            Discarded == {j \in 1..n : /\ embeddings[j] # None
                                       /\ expected_dim # 0
                                       /\ embeddings[j].d # expected_dim}
            Attempted == {j \in 1..n : /\ embeddings[j] = None
                                       /\ texts_to_embed[j] # None}
            Never == {j \in 1..n : /\ embeddings[j] = None
                                   /\ texts_to_embed[j] = None}
        IN  /\ successful_embeddings = Cardinality(Accepted)
            /\ failed_embeddings = Cardinality(Discarded) + Cardinality(Attempted)
            /\ successful_embeddings + failed_embeddings = n - Cardinality(Never)
            /\ \A j \in Accepted : updated_records[j].vec = embeddings[j]
            /\ \A j \in (1..n) \ Accepted :
                  updated_records[j].vec = Get(original_records[j].vec)

C10_Witness ==
    /\ pc = "write"
    /\ Len(original_records) = 3
    /\ expected_dim # 0
    /\ successful_embeddings = 1
    /\ failed_embeddings = 1
    /\ \E j \in 1..3 : embeddings[j] # None /\ embeddings[j].d # expected_dim
    /\ \E j \in 1..3 : embeddings[j] = None /\ texts_to_embed[j] = None

\* the positions of a request's batch all hold an embedding
BatchIsAssigned(c) == \A idx \in Range(c.idx) : all_embeddings[idx] # None

\* C11 as claimed: when the OpenAI embed_texts returns, a batch is all or
\* nothing: a batch whose response had another number of embeddings than the
\* texts sent (first attempt or retry), or that failed otherwise, has None at
\* every position, and no batch has some of its valid texts assigned and
\* others not.
C11_BatchAllOrNothing ==
    (vectorizer = "openai" /\ apc = "returned") =>
        \A k \in 1..Len(calls) :
            /\ calls[k].result = "mismatch" => BatchIsNone(calls[k])
            /\ (calls[k].result # "ok"
                /\ (k = Len(calls) \/ calls[k + 1].start # calls[k].start)) =>
                  BatchIsNone(calls[k])
            /\ BatchIsNone(calls[k]) \/ BatchIsAssigned(calls[k])

====
